---- MODULE Spec2Model ----
(***************************************************************************)
(* Model of architecture/max-msp/rnbo.py: the converter that builds a      *)
(* Max/RNBO patch (a graph of boxes and patch lines) from a Faust DSP      *)
(* description.  Texts of boxes are real strings, built as the f-strings   *)
(* of the source build them; a patcher is a sequence of boxes and a        *)
(* sequence of lines, a box being named by its position in its patcher.    *)
(***************************************************************************)
EXTENDS Integers, Sequences, FiniteSets, TLC

VARIABLES pc, args, patcher, dsp_rnbo, effect_rnbo, midi_in, midi_out, log, disk, io_args, io_result, result

vars == <<pc, args, patcher, dsp_rnbo, effect_rnbo, midi_in, midi_out, log, disk, io_args, io_result, result>>

\* Bounds of the model
MaxPlanChannels == 5
MaxChannels == 2
MaxInputs == 1
MaxEffectOutputs == 1
MaxVoices == 1

\* Python's None, for variables that hold a box
None == 0

Max(a, b) == IF a >= b THEN a ELSE b

\* range(1, n + 1)
Range1(n) == 1..n

(***************************************************************************)
(* generate_io_info                                                        *)
(***************************************************************************)
io_entry(index, prefix, type) ==
    [comment |-> "", index |-> index, tag |-> prefix \o ToString(index), type |-> type]

\* the entries appended by one `for i in range(1, n + 1)` loop
SignalEntries(n, prefix) == [i \in Range1(n) |-> io_entry(i, prefix, "signal")]

\* The loop variable i after a `for i in range(1, n + 1)` loop: bound to n
\* when the loop ran, left as it was (<<>> when unbound) when it did not.
LoopVarAfter(before, n) == IF n >= 1 THEN <<n>> ELSE before

\* the name `i` as line 344 reads it, after the inlet loop and the outlet loop
MidiOutletLoopVar(num_inputs, num_outputs) ==
    LoopVarAfter(LoopVarAfter(<<>>, num_inputs), num_outputs)

MidiInletCount(num_inputs) == Max(1, num_inputs) + 1

MidiOutletCount(num_outputs) == Max(1, num_outputs) + 3

PlainInletCount(num_inputs) == Max(1, num_inputs)

PlainOutletCount(num_outputs) == Max(1, num_outputs) + 2

generate_io_info(midi, num_inputs, num_outputs) ==
    IF midi
    THEN LET inlets == MidiInletCount(num_inputs)
             outlets == MidiOutletCount(num_outputs)
             i == MidiOutletLoopVar(num_inputs, num_outputs)
         IN  IF i = <<>>
             THEN [raised |-> TRUE, error |-> "UnboundLocalError"]
             ELSE [raised |-> FALSE,
                   inlets |-> inlets,
                   outlets |-> outlets,
                   inletInfo |-> Append(SignalEntries(num_inputs, "in"),
                                        io_entry(inlets, "in", "midi")),
                   outletInfo |-> Append(SignalEntries(num_outputs, "out"),
                                         io_entry(i[1], "out", "midi"))]
    ELSE [raised |-> FALSE,
          inlets |-> PlainInletCount(num_inputs),
          outlets |-> PlainOutletCount(num_outputs),
          inletInfo |-> SignalEntries(num_inputs, "in"),
          outletInfo |-> SignalEntries(num_outputs, "out")]

\* entries of a port list with a given type tag
EntriesOfType(info, type) == {k \in DOMAIN info : info[k].type = type}

(***************************************************************************)
(* Strings                                                                 *)
(***************************************************************************)
\* str.endswith
EndsWith(s, suffix) ==
    /\ Len(s) >= Len(suffix)
    /\ SubSeq(s, Len(s) - Len(suffix) + 1, Len(s)) = suffix

\* " ".join(parts)
RECURSIVE Join(_)
Join(parts) ==
    IF parts = <<>> THEN ""
    ELSE IF Len(parts) = 1 THEN parts[1]
    ELSE parts[1] \o " " \o Join(Tail(parts))

\* " ".join(str(i + 1) for i in range(n))
ChannelList(n) == Join([i \in 1..n |-> ToString(i)])

\* s.rsplit(".", 1)[0]
RSplitDot(s) ==
    LET dots == {k \in 1..Len(s) : SubSeq(s, k, k) = "."}
    IN  IF dots = {} THEN s
        ELSE SubSeq(s, 1, (CHOOSE k \in dots : \A j \in dots : j <= k) - 1)

(***************************************************************************)
(* The py2max interface: a patcher is its boxes and its lines, add_* puts  *)
(* a box at the end and the box is named by its position.                  *)
(***************************************************************************)
EmptyPatcher == [boxes |-> <<>>, lines |-> <<>>]

add_box(p, box) == [p EXCEPT !.boxes = Append(@, box)]

\* the box the next add_* call of patcher p creates
NewBox(p) == Len(p.boxes) + 1

textbox(text) == [maxclass |-> "newobj", text |-> text]

message(text) == [maxclass |-> "message", text |-> text]

comment(text) == [maxclass |-> "comment", text |-> text]

\* add_line(src, dst, inlet=0, outlet=0)
add_line(p, src, dst, inlet, outlet) ==
    [p EXCEPT !.lines = Append(@, [src |-> src, dst |-> dst, outlet |-> outlet, inlet |-> inlet])]

(***************************************************************************)
(* build_label                                                             *)
(***************************************************************************)
build_label(item_type, shortname, test) ==
    IF test THEN "RB_" \o item_type \o "_" \o shortname ELSE shortname

(***************************************************************************)
(* add_polyphony_control                                                   *)
(***************************************************************************)
PitchPath(sub, note_in, set_param_pitch, is_freq) ==
    IF is_freq
    THEN LET mtof == NewBox(sub)
             s1 == add_box(sub, textbox("mtof"))
             s2 == add_line(s1, note_in, mtof, 0, 0)
         IN  add_line(s2, mtof, set_param_pitch, 0, 0)
    ELSE add_line(sub, note_in, set_param_pitch, 0, 0)

GainPath(sub, note_in, set_param_gain, is_gain) ==
    IF is_gain
    THEN LET scale_gain == NewBox(sub)
             s1 == add_box(sub, textbox("scale 0 127 0 1"))
             s2 == add_line(s1, note_in, scale_gain, 0, 1)
         IN  add_line(s2, scale_gain, set_param_gain, 0, 0)
    ELSE add_line(sub, note_in, set_param_gain, 0, 1)

GatePath(sub, note_in, set_param_gate) ==
    LET gate_op == NewBox(sub)
        s1 == add_box(sub, textbox("> 0"))
        s2 == add_line(s1, note_in, gate_op, 0, 1)
    IN  add_line(s2, gate_op, set_param_gate, 0, 0)

add_polyphony_control(sub_patch, set_param_pitch, set_param_gain, set_param_gate, is_freq, is_gain) ==
    LET note_in == NewBox(sub_patch)
        s1 == add_box(sub_patch, textbox("notein"))
        s2 == PitchPath(s1, note_in, set_param_pitch, is_freq)
        s3 == GainPath(s2, note_in, set_param_gain, is_gain)
    IN  GatePath(s3, note_in, set_param_gate)

(***************************************************************************)
(* add_midi_control                                                        *)
(***************************************************************************)
MidiTypes == {"ctrl", "chanpress", "keyon", "keyoff", "key", "pitchwheel", "pgm"}

midi_mapping(midi_type) ==
    CASE midi_type = "ctrl" -> [in |-> "ctlin", out |-> "ctlout"]
      [] midi_type = "chanpress" -> [in |-> "touchin", out |-> "touchout"]
      [] midi_type \in {"keyon", "keyoff", "key"} -> [in |-> "notein", out |-> "noteout"]
      [] midi_type = "pitchwheel" -> [in |-> "bendin @bendmode 1", out |-> "bendout @bendmode 1"]
      [] midi_type = "pgm" -> [in |-> "pgmin", out |-> "pgmout"]

\* `midi_type not in midi_mapping`
MidiTypeSupported(midi_type) == midi_type \in MidiTypes

scaling_in(midi_type, item) ==
    IF midi_type = "pitchwheel"
    THEN "scale -1 1 " \o ToString(item.min) \o " " \o ToString(item.max)
    ELSE "scale 0 127 " \o ToString(item.min) \o " " \o ToString(item.max)

scaling_out(midi_type, item) ==
    IF midi_type = "pitchwheel"
    THEN "scale " \o ToString(item.min) \o " " \o ToString(item.max) \o " -1 -1"
    ELSE "scale " \o ToString(item.min) \o " " \o ToString(item.max) \o " 0 127"

\* the boxes and lines of lines 271-299, for a supported control type
MidiChains(item, sub_patch, set_param, codebox, names) ==
    LET midi_type == item.midi[1]
        midi_args == Join(Tail(item.midi))
        midi_in_box == NewBox(sub_patch)
        s1 == add_box(sub_patch, textbox(names.in \o " " \o midi_args))
        midi_out_box == NewBox(s1)
        s2 == add_box(s1, textbox(names.out \o " " \o midi_args))
        scaling_in_box == NewBox(s2)
        s3 == add_box(s2, textbox(scaling_in(midi_type, item)))
        scaling_out_box == NewBox(s3)
        s4 == add_box(s3, textbox(scaling_out(midi_type, item)))
        s5 == add_line(s4, midi_in_box, scaling_in_box, 0, 0)
        s6 == add_line(s5, scaling_in_box, set_param, 0, 0)
        s7 == add_line(s6, codebox, scaling_out_box, 0, 0)
    IN  add_line(s7, scaling_out_box, midi_out_box, 0, 0)

\* add_midi_control without the rejection of an unknown control type: the type's own
\* name is used for the receive and send objects
add_midi_control_unchecked(item, sub_patch, set_param, codebox, lg) ==
    IF item.midi = <<>>
    THEN [sub |-> sub_patch, log |-> lg, ok |-> FALSE]
    ELSE IF ~MidiTypeSupported(item.midi[1])
    THEN [sub |-> MidiChains(item, sub_patch, set_param, codebox,
                             [in |-> item.midi[1], out |-> item.midi[1]]),
          log |-> Append(lg, "MIDI control type '" \o item.midi[1] \o "' not supported"),
          ok |-> TRUE]
    ELSE [sub |-> MidiChains(item, sub_patch, set_param, codebox, midi_mapping(item.midi[1])),
          log |-> lg, ok |-> TRUE]

\* returns the subpatcher, the log and the function's result
add_midi_control(item, sub_patch, set_param, codebox, lg) ==
    IF item.midi = <<>>
    THEN [sub |-> sub_patch, log |-> lg, ok |-> FALSE]
    ELSE IF ~MidiTypeSupported(item.midi[1])
    THEN [sub |-> sub_patch,
          log |-> Append(lg, "MIDI control type '" \o item.midi[1] \o "' not supported"),
          ok |-> FALSE]
    ELSE [sub |-> MidiChains(item, sub_patch, set_param, codebox, midi_mapping(item.midi[1])),
          log |-> lg, ok |-> TRUE]

(***************************************************************************)
(* add_rnbo_object                                                         *)
(***************************************************************************)
\* rnbo_attributes, with the polyphony attribute only if midi and nvoices > 0
rnbo_attributes(dsp_name, midi, nvoices) ==
    IF midi /\ nvoices > 0
    THEN [optimization |-> "O3", title |-> dsp_name, dumpoutlet |-> 1, polyphony |-> nvoices]
    ELSE [optimization |-> "O3", title |-> dsp_name, dumpoutlet |-> 1]

\* patcher.add_rnbo(...): the rnbo~ box, with its (still empty) subpatcher
rnbo_box(dsp_name, io, attributes) ==
    [maxclass |-> "rnbo~",
     title |-> dsp_name,
     numinlets |-> io.inlets,
     numoutlets |-> io.outlets,
     inletInfo |-> io.inletInfo,
     outletInfo |-> io.outletInfo,
     saved_object_attributes |-> attributes,
     subpatcher |-> EmptyPatcher]

codebox_tilde(code) == [maxclass |-> "codebox~", code |-> code]

\* lines 421-423: the placeholder in~ 1 of a unit without audio inputs
PlaceholderInput(sub, codebox, num_inputs) ==
    IF num_inputs = 0
    THEN add_line(add_box(sub, textbox("in~ 1")), NewBox(sub), codebox, 0, 0)
    ELSE sub

\* lines 426-428
InputBoxes(sub, codebox, num_inputs) ==
    LET base == Len(sub.boxes)
    IN  [boxes |-> sub.boxes \o [i \in 1..num_inputs |-> textbox("in~ " \o ToString(i))],
         lines |-> sub.lines \o [i \in 1..num_inputs |->
                     [src |-> base + i, dst |-> codebox, outlet |-> 0, inlet |-> i - 1]]]

\* lines 431-433
OutputBoxes(sub, codebox, num_outputs) ==
    LET base == Len(sub.boxes)
    IN  [boxes |-> sub.boxes \o [i \in 1..num_outputs |-> textbox("out~ " \o ToString(i))],
         lines |-> sub.lines \o [i \in 1..num_outputs |->
                     [src |-> codebox, dst |-> base + i, outlet |-> i - 1, inlet |-> 0]]]

IsToggleType(item_type) == item_type \in {"button", "checkbox"}

\* the attrui of a button or checkbox (lines 462-475)
ToggleAttrui(label) ==
    [maxclass |-> "attrui", text |-> "attrui", attr |-> label, parameter_enable |-> 1,
     minimum |-> 0, maximum |-> 1,
     parameter_initial |-> <<label, 0>>, parameter_initial_enable |-> 1]

\* SliderAttrui with the initial value taken from the lower end of the range
SliderAttruiInitFromMin(label, item) ==
    [maxclass |-> "attrui", text |-> "attrui", attr |-> label, parameter_enable |-> 1,
     minimum |-> item.min, maximum |-> item.max,
     parameter_initial |-> <<label, item.min>>, parameter_initial_enable |-> 1]

\* the attrui of a slider or nentry (lines 491-504)
SliderAttrui(label, item) ==
    [maxclass |-> "attrui", text |-> "attrui", attr |-> label, parameter_enable |-> 1,
     minimum |-> item.min, maximum |-> item.max,
     parameter_initial |-> <<label, item.init>>, parameter_initial_enable |-> 1]

\* line 480
ToggleParamText(label) == "param " \o label \o " 0 @min 0 @max 1"

\* line 510
SliderParamText(label, item) ==
    "param " \o label \o " " \o ToString(item.init)
        \o " @min " \o ToString(item.min) \o " @max " \o ToString(item.max)

\* line 488 divides by item["step"]
StepsValueRaises(item) == item.step = 0

\* PolyphonyRoles with the first parameter of a role kept instead of the last
PolyphonyRolesFirstWins(st, shortname, set_param, midi, nvoices) ==
    IF ~(midi /\ nvoices > 0) THEN st
    ELSE IF EndsWith(shortname, "freq") /\ st.set_param_pitch = None
    THEN [st EXCEPT !.set_param_pitch = set_param, !.is_freq = TRUE]
    ELSE IF EndsWith(shortname, "key") /\ st.set_param_pitch = None
    THEN [st EXCEPT !.set_param_pitch = set_param, !.is_freq = FALSE]
    ELSE IF EndsWith(shortname, "gain") /\ st.set_param_gain = None
    THEN [st EXCEPT !.set_param_gain = set_param, !.is_gain = TRUE]
    ELSE IF EndsWith(shortname, "velocity") /\ st.set_param_gain = None
    THEN [st EXCEPT !.set_param_gain = set_param, !.is_gain = FALSE]
    ELSE IF EndsWith(shortname, "gate") /\ st.set_param_gate = None
    THEN [st EXCEPT !.set_param_gate = set_param]
    ELSE st

\* lines 518-533: the relays and modes of the polyphony roles after this item
PolyphonyRoles(st, shortname, set_param, midi, nvoices) ==
    IF ~(midi /\ nvoices > 0) THEN st
    ELSE IF EndsWith(shortname, "freq")
    THEN [st EXCEPT !.set_param_pitch = set_param, !.is_freq = TRUE]
    ELSE IF EndsWith(shortname, "key")
    THEN [st EXCEPT !.set_param_pitch = set_param, !.is_freq = FALSE]
    ELSE IF EndsWith(shortname, "gain")
    THEN [st EXCEPT !.set_param_gain = set_param, !.is_gain = TRUE]
    ELSE IF EndsWith(shortname, "velocity")
    THEN [st EXCEPT !.set_param_gain = set_param, !.is_gain = FALSE]
    ELSE IF EndsWith(shortname, "gate")
    THEN [st EXCEPT !.set_param_gate = set_param]
    ELSE st

\* lines 513-537: from the param box on, the same for both kinds of item
WireParam(st, item, set_param, param_text, ctx) ==
    LET param == NewBox(st.sub)
        s1 == add_box(st.sub, textbox(param_text))
        s2 == add_line(s1, param, set_param, 0, 0)
        s3 == add_line(s2, set_param, ctx.codebox, 0, 0)
        st1 == PolyphonyRoles([st EXCEPT !.sub = s3], item.shortname, set_param, ctx.midi, ctx.nvoices)
    IN  IF ctx.midi
        THEN LET r == add_midi_control(item, st1.sub, set_param, ctx.codebox, st1.log)
             IN  [st1 EXCEPT !.sub = r.sub, !.log = r.log]
        ELSE st1

\* one turn of the loop of lines 443-537 (the patching_rect of the toggle is layout only)
ParamLoopBody(st, item, ctx) ==
    LET label == build_label(item.type, item.shortname, ctx.test)
        set_param == NewBox(st.sub)
        st1 == [st EXCEPT !.sub = add_box(@, textbox("set " \o label))]
    IN  IF IsToggleType(item.type)
        THEN LET toggle == NewBox(st1.patcher)
                 p1 == add_box(st1.patcher, textbox("toggle"))
                 param_wrap == NewBox(p1)
                 p2 == add_box(p1, ToggleAttrui(label))
                 p3 == add_line(p2, toggle, param_wrap, 0, 0)
                 p4 == add_line(p3, param_wrap, ctx.rnbo, 0, 0)
             IN  WireParam([st1 EXCEPT !.patcher = p4], item, set_param, ToggleParamText(label), ctx)
        ELSE IF StepsValueRaises(item)
        THEN [st1 EXCEPT !.raised = TRUE, !.error = "ZeroDivisionError"]
        ELSE LET param_wrap == NewBox(st1.patcher)
                 p1 == add_box(st1.patcher, SliderAttrui(label, item))
                 p2 == add_line(p1, param_wrap, ctx.rnbo, 0, 0)
             IN  WireParam([st1 EXCEPT !.patcher = p2], item, set_param, SliderParamText(label, item), ctx)

RECURSIVE ParamLoop(_, _, _)
ParamLoop(st, items, ctx) ==
    IF items = <<>> \/ st.raised THEN st
    ELSE ParamLoop(ParamLoopBody(st, Head(items), ctx), Tail(items), ctx)

\* line 540 without the test of the gate relay
PolyphonyCompleteNoGate(midi, nvoices, st) ==
    /\ midi
    /\ nvoices > 0
    /\ st.set_param_pitch # None
    /\ st.set_param_gain # None

\* line 540; a relay that was assigned is a py2max Box, which is truthy
PolyphonyComplete(midi, nvoices, st) ==
    /\ midi
    /\ nvoices > 0
    /\ st.set_param_pitch # None
    /\ st.set_param_gain # None
    /\ st.set_param_gate # None

\* lines 539-543
PolyphonyStep(st, midi, nvoices) ==
    IF ~st.raised /\ PolyphonyComplete(midi, nvoices, st)
    THEN [st EXCEPT !.sub = add_polyphony_control(@, st.set_param_pitch, st.set_param_gain,
                                                  st.set_param_gate, st.is_freq, st.is_gain)]
    ELSE st

\* The subpatcher is an object the rnbo~ box refers to: what is added to it
\* is seen through the box.
WithSubpatcher(p, rnbo, sub) == [p EXCEPT !.boxes[rnbo].subpatcher = sub]

\* returns the patcher, the rnbo~ box, the log and whether an exception left the function
add_rnbo_object(p, dsp_name, codebox_code, items_info_list, midi, nvoices, test, num_inputs, num_outputs, lg) ==
    LET io == generate_io_info(midi, num_inputs, num_outputs)
    IN  IF io.raised
        THEN [raised |-> TRUE, error |-> io.error, patcher |-> p, rnbo |-> None, log |-> lg]
        ELSE
        LET rnbo == NewBox(p)
            p1 == add_box(p, rnbo_box(dsp_name, io, rnbo_attributes(dsp_name, midi, nvoices)))
            codebox == 1
            s1 == add_box(EmptyPatcher, codebox_tilde(codebox_code))
            s2 == PlaceholderInput(s1, codebox, num_inputs)
            s3 == InputBoxes(s2, codebox, num_inputs)
            s4 == OutputBoxes(s3, codebox, num_outputs)
            st0 == [patcher |-> p1, sub |-> s4,
                    set_param_pitch |-> None, set_param_gain |-> None, set_param_gate |-> None,
                    is_freq |-> FALSE, is_gain |-> FALSE,
                    log |-> lg, raised |-> FALSE, error |-> ""]
            ctx == [rnbo |-> rnbo, codebox |-> codebox, midi |-> midi, nvoices |-> nvoices, test |-> test]
            st1 == PolyphonyStep(ParamLoop(st0, items_info_list, ctx), midi, nvoices)
        IN  [raised |-> st1.raised, error |-> st1.error,
             patcher |-> WithSubpatcher(st1.patcher, rnbo, st1.sub),
             rnbo |-> IF st1.raised THEN None ELSE rnbo, log |-> st1.log]

(***************************************************************************)
(* connect_dsp_effect                                                      *)
(***************************************************************************)
\* connect_dsp_effect with the 2 -> 1 case wired in parallel instead of merged
connect_dsp_effect_parallel(p, dsp, effect, dsp_num_outputs, effect_num_inputs) ==
    CASE dsp_num_outputs = 1 /\ effect_num_inputs = 1 ->
            add_line(p, dsp, effect, 0, 0)
      [] dsp_num_outputs = 1 /\ effect_num_inputs = 2 ->
            add_line(add_line(p, dsp, effect, 0, 0), dsp, effect, 1, 0)
      [] dsp_num_outputs = 2 /\ effect_num_inputs = 1 ->
            add_line(add_line(p, dsp, effect, 0, 0), dsp, effect, 1, 1)
      [] dsp_num_outputs = 2 /\ effect_num_inputs = 2 ->
            add_line(add_line(p, dsp, effect, 0, 0), dsp, effect, 1, 1)
      [] OTHER -> p

connect_dsp_effect(p, dsp, effect, dsp_num_outputs, effect_num_inputs) ==
    CASE dsp_num_outputs = 1 /\ effect_num_inputs = 1 ->
            add_line(p, dsp, effect, 0, 0)
      [] dsp_num_outputs = 1 /\ effect_num_inputs = 2 ->
            add_line(add_line(p, dsp, effect, 0, 0), dsp, effect, 1, 0)
      [] dsp_num_outputs = 2 /\ effect_num_inputs = 1 ->
            add_line(add_line(p, dsp, effect, 0, 0), dsp, effect, 0, 1)
      [] dsp_num_outputs = 2 /\ effect_num_inputs = 2 ->
            add_line(add_line(p, dsp, effect, 0, 0), dsp, effect, 1, 1)
      [] OTHER -> p

(***************************************************************************)
(* add_compile_test                                                        *)
(***************************************************************************)
add_compile_test(p, rnbo, export_path, cpp_filename) ==
    LET base == Len(p.boxes)
        load_bang == base + 1
        dump_target_config == base + 2
        tb == base + 3
        set_path == base + 4
        dict1 == base + 5
        route_dict == base + 6
        export == base + 7
        route == base + 8
        boxes == <<textbox("loadbang"),
                   message("dumptargetconfig cpp-export cpp-code-export"),
                   textbox("t b b s"),
                   message("set output_path " \o export_path \o ", set export_name " \o cpp_filename),
                   textbox("dict"),
                   textbox("route dictionary"),
                   message("export cpp-export cpp-code-export $1"),
                   textbox("route targetconfig")>>
        L(src, dst, inlet, outlet) == [src |-> src, dst |-> dst, outlet |-> outlet, inlet |-> inlet]
    IN  [boxes |-> p.boxes \o boxes,
         lines |-> p.lines \o
            <<L(load_bang, dump_target_config, 0, 0),
              L(dump_target_config, rnbo, 0, 0),
              L(tb, dict1, 0, 0),
              L(tb, set_path, 0, 1),
              L(tb, dict1, 1, 2),
              L(set_path, dict1, 0, 0),
              L(dict1, route_dict, 0, 0),
              L(route_dict, export, 0, 0),
              L(route, tb, 0, 0),
              L(export, rnbo, 0, 0),
              L(rnbo, route, 0, p.boxes[rnbo].numoutlets - 1)>>]

(***************************************************************************)
(* create_audio_output, create_audio_input                                 *)
(***************************************************************************)
\* create_audio_output with the unit's outlets counted from 1, as the port plan counts them
create_audio_output_one_based(p, rnbo, num_outputs) ==
    LET toggle == NewBox(p)
        p1 == add_box(p, textbox("toggle"))
        audio_out == NewBox(p1)
        p2 == add_box(p1, [maxclass |-> "newobj", text |-> "dac~ " \o ChannelList(num_outputs),
                           numinlets |-> num_outputs])
        p3 == add_line(p2, toggle, audio_out, 0, 0)
    IN  [p3 EXCEPT !.lines = @ \o [i \in 1..num_outputs |->
            [src |-> rnbo, dst |-> audio_out, outlet |-> i, inlet |-> i - 1]]]

create_audio_output(p, rnbo, num_outputs) ==
    LET toggle == NewBox(p)
        p1 == add_box(p, textbox("toggle"))
        audio_out == NewBox(p1)
        p2 == add_box(p1, [maxclass |-> "newobj", text |-> "dac~ " \o ChannelList(num_outputs),
                           numinlets |-> num_outputs])
        p3 == add_line(p2, toggle, audio_out, 0, 0)
    IN  [p3 EXCEPT !.lines = @ \o [i \in 1..num_outputs |->
            [src |-> rnbo, dst |-> audio_out, outlet |-> i - 1, inlet |-> i - 1]]]

create_audio_input(p, rnbo, num_inputs) ==
    LET audio_in == NewBox(p)
        p1 == add_box(p, [maxclass |-> "newobj", text |-> "adc~ " \o ChannelList(num_inputs),
                          numoutlets |-> num_inputs])
    IN  [p1 EXCEPT !.lines = @ \o [i \in 1..num_inputs |->
            [src |-> audio_in, dst |-> rnbo, outlet |-> i - 1, inlet |-> i - 1]]]

(***************************************************************************)
(* connect_midi                                                            *)
(***************************************************************************)
MidiInletIndex(box) == box.numinlets - 1

MidiOutletIndex(box) == box.numoutlets - 3

connect_midi(p, rnbo, midi_in_box, midi_out_box) ==
    LET p1 == add_line(p, midi_in_box, rnbo, MidiInletIndex(p.boxes[rnbo]), 0)
    IN  add_line(p1, rnbo, midi_out_box, 0, MidiOutletIndex(p.boxes[rnbo]))

(***************************************************************************)
(* Inputs: parameter descriptors as extract_items_info returns them        *)
(***************************************************************************)
Item(shortname, type, init, min, max, step, midi) ==
    [shortname |-> shortname, type |-> type, init |-> init, min |-> min, max |-> max,
     step |-> step, midi |-> midi]

FreqItem == Item("voice_freq", "hslider", 4, 2, 9, 1, <<"pitchwheel">>)

KeyItem == Item("voice_key", "nentry", 6, 1, 12, 1, <<>>)

GainItem == Item("voice_gain", "vslider", 1, 0, 2, 1, <<"ctrl", "7">>)

VelocityItem == Item("voice_velocity", "nentry", 5, 0, 127, 1, <<>>)

GateItem == Item("voice_gate", "button", 0, 0, 1, 1, <<>>)

MuteItem == Item("mute", "checkbox", 0, 0, 1, 1, <<"foo", "1">>)

CutoffItem == Item("cutoff", "nentry", 3, 0, 10, 1, <<>>)

ZeroStepItem == Item("detune", "hslider", 0, -1, 1, 0, <<>>)

\* the parameters of the model, in one document order
MasterItems == <<MuteItem, FreqItem, KeyItem, GainItem, VelocityItem, GateItem, CutoffItem, ZeroStepItem>>

MaxItems == 3

\* the choices of n parameters, by increasing position in MasterItems
Selections(n) ==
    {f \in [1..n -> DOMAIN MasterItems] : \A i, j \in 1..n : i < j => f[i] < f[j]}

\* parameter lists of a unit: up to MaxItems parameters with distinct names, in the
\* order of MasterItems or in the opposite order
ItemLists ==
    UNION {{[k \in 1..n |-> MasterItems[f[k]]] : f \in Selections(n)}
             \cup {[k \in 1..n |-> MasterItems[f[n + 1 - k]]] : f \in Selections(n)} :
           n \in 0..MaxItems}

PolyItems == <<FreqItem, GainItem, GateItem>>

HoldGateItem == Item("hold_gate", "checkbox", 0, 0, 1, 1, <<>>)

\* parameter lists in which every polyphony role is matched by two parameters
RoleClashLists ==
    {<<FreqItem, KeyItem, GainItem, VelocityItem, GateItem, HoldGateItem>>,
     <<HoldGateItem, GateItem, VelocityItem, GainItem, KeyItem, FreqItem>>,
     <<KeyItem, FreqItem, GainItem, VelocityItem, GateItem>>,
     <<FreqItem, KeyItem, VelocityItem, GainItem, GateItem>>}

UnitItemLists == ItemLists \cup RoleClashLists

DspItemLists == {<<>>, PolyItems, <<MuteItem, ZeroStepItem>>}

EffectItemLists == {PolyItems, <<ZeroStepItem>>}

VoiceCounts == -1..MaxVoices

\* voice counts of the whole conversion: none (-1) or some
PatchVoiceCounts == {-1} \cup 1..MaxVoices

DspCode == "dsp codebox"

EffectCode == "effect codebox"

MaxpatPath == "out.maxpat"

ExportPath == "export"

CppFilename == "out.cpp"

\* no function has returned yet
NoResult == <<>>

Idle ==
    /\ dsp_rnbo = None
    /\ effect_rnbo = None
    /\ midi_in = None
    /\ midi_out = None
    /\ log = <<>>
    /\ disk = <<>>
    /\ result = NoResult

NoPlan == [raised |-> FALSE, inlets |-> 0, outlets |-> 0, inletInfo |-> <<>>, outletInfo |-> <<>>]

NoPlanArgs == [midi |-> FALSE, num_inputs |-> 0, num_outputs |-> 0]

(***************************************************************************)
(* The Port Planner on its own: one call of generate_io_info.              *)
(***************************************************************************)
InitPlan ==
    /\ pc = "plan_call"
    /\ io_args \in [midi : BOOLEAN, num_inputs : 0..MaxPlanChannels, num_outputs : 0..MaxPlanChannels]
    /\ io_result = NoPlan
    /\ args = [midi |-> FALSE]
    /\ patcher = EmptyPatcher
    /\ Idle

PlanCall ==
    /\ pc = "plan_call"
    /\ io_result' = generate_io_info(io_args.midi, io_args.num_inputs, io_args.num_outputs)
    /\ pc' = "plan_done"
    /\ UNCHANGED <<args, patcher, dsp_rnbo, effect_rnbo, midi_in, midi_out, log, disk, io_args, result>>

NextPlan == PlanCall

SpecPlan == InitPlan /\ [][NextPlan]_vars

(***************************************************************************)
(* One unit on its own: one call of add_rnbo_object on a new patcher.      *)
(***************************************************************************)
MaxUnitChannels == 1

UnitChannels == 0..MaxUnitChannels

InitUnit ==
    /\ pc = "unit_call"
    /\ args \in [midi : BOOLEAN, nvoices : VoiceCounts, test : BOOLEAN,
                 num_inputs : UnitChannels, num_outputs : UnitChannels, items : UnitItemLists]
    /\ patcher = EmptyPatcher
    /\ io_args = NoPlanArgs
    /\ io_result = NoPlan
    /\ Idle

UnitCall ==
    /\ pc = "unit_call"
    /\ LET r == add_rnbo_object(patcher, "unit", DspCode, args.items, args.midi, args.nvoices,
                                args.test, args.num_inputs, args.num_outputs, log)
       IN  /\ patcher' = r.patcher
           /\ log' = r.log
           /\ dsp_rnbo' = r.rnbo
           /\ pc' = IF r.raised THEN "unit_raised" ELSE "unit_done"
    /\ UNCHANGED <<args, effect_rnbo, midi_in, midi_out, disk, io_args, io_result, result>>

NextUnit == UnitCall

SpecUnit == InitUnit /\ [][NextUnit]_vars

(***************************************************************************)
(* create_rnbo_patch, one action per step of the function.                 *)
(***************************************************************************)
ArgSets ==
    {a \in [midi : BOOLEAN, nvoices : PatchVoiceCounts,
            dsp_items_info_list : DspItemLists,
            dsp_num_inputs : 0..MaxInputs, dsp_num_outputs : 0..MaxChannels,
            effect_codebox_code : {"", EffectCode},
            effect_items_info_list : EffectItemLists,
            effect_num_inputs : -1..MaxChannels, effect_num_outputs : -1..MaxEffectOutputs,
            compile : BOOLEAN, test : BOOLEAN, subpatcher : BOOLEAN] :
        \* without an effect the effect's arguments keep their defaults
        /\ a.effect_codebox_code = "" =>
              /\ a.effect_items_info_list = PolyItems
              /\ a.effect_num_inputs = -1
              /\ a.effect_num_outputs = -1
        /\ a.effect_codebox_code # "" => a.effect_num_inputs >= 0 /\ a.effect_num_outputs >= 0}

\* the steps of create_rnbo_patch in program order, and the condition each is under
Steps == <<"patcher", "dsp", "midi", "save_sub", "effect", "connect", "save_effect",
           "effect_midi", "compile", "audio_out", "audio_in", "save", "done">>

StepTaken(step, a) ==
    CASE step = "midi" -> a.midi
      [] step = "save_sub" -> a.subpatcher
      [] step \in {"effect", "connect"} -> a.effect_codebox_code # ""
      [] step = "save_effect" -> a.effect_codebox_code # "" /\ a.subpatcher
      [] step = "effect_midi" -> a.effect_codebox_code # "" /\ a.midi
      [] step = "compile" -> a.compile
      [] step = "audio_in" -> a.dsp_num_inputs > 0
      [] OTHER -> TRUE

StepIndex(step) == CHOOSE k \in DOMAIN Steps : Steps[k] = step

\* the next step that is executed after `step`
After(step, a) ==
    LET later == {k \in DOMAIN Steps : k > StepIndex(step) /\ StepTaken(Steps[k], a)}
    IN  Steps[CHOOSE k \in later : \A j \in later : k <= j]

Init ==
    /\ pc = "patcher"
    /\ args \in ArgSets
    /\ patcher = EmptyPatcher
    /\ io_args = NoPlanArgs
    /\ io_result = NoPlan
    /\ Idle

\* lines 781-789
CreatePatcher ==
    /\ pc = "patcher"
    /\ patcher' = add_box(EmptyPatcher, comment("Faust generated RNBO patch, Copyright (c) 2023 Grame"))
    /\ pc' = After("patcher", args)
    /\ UNCHANGED <<args, dsp_rnbo, effect_rnbo, midi_in, midi_out, log, disk, io_args, io_result, result>>

\* lines 791-802
AddDspRnbo ==
    /\ pc = "dsp"
    /\ LET r == add_rnbo_object(patcher, "dsp", DspCode, args.dsp_items_info_list, args.midi,
                                args.nvoices, args.test, args.dsp_num_inputs,
                                args.dsp_num_outputs, log)
       IN  /\ patcher' = r.patcher
           /\ log' = r.log
           /\ dsp_rnbo' = r.rnbo
           /\ pc' = IF r.raised THEN "error" ELSE After("dsp", args)
    /\ UNCHANGED <<args, effect_rnbo, midi_in, midi_out, disk, io_args, io_result, result>>

\* lines 806-809
GlobalMidi ==
    /\ pc = "midi"
    /\ LET p1 == add_box(patcher, textbox("midiin"))
           p2 == add_box(p1, textbox("midiout"))
       IN  /\ midi_in' = NewBox(patcher)
           /\ midi_out' = NewBox(p1)
           /\ patcher' = connect_midi(p2, dsp_rnbo, NewBox(patcher), NewBox(p1))
    /\ pc' = After("midi", args)
    /\ UNCHANGED <<args, dsp_rnbo, effect_rnbo, log, disk, io_args, io_result, result>>

\* lines 812-813
SaveSubpatcher ==
    /\ pc = "save_sub"
    /\ disk' = Append(disk, [op |-> "saveas", path |-> RSplitDot(MaxpatPath) \o "." \o "rnbopat",
                             content |-> patcher.boxes[dsp_rnbo].subpatcher])
    /\ pc' = After("save_sub", args)
    /\ UNCHANGED <<args, patcher, dsp_rnbo, effect_rnbo, midi_in, midi_out, log, io_args, io_result, result>>

\* the arguments the effect is built with (lines 817-827)
EffectName == "Effect"

EffectMidi(a) == a.midi

\* the effect built with the DSP's voice count
EffectNVoicesOfDsp(a) == a.nvoices

EffectNVoices(a) == -1

\* the effect built with the test flag of the conversion
EffectTestOfDsp(a) == a.test

EffectTest(a) == FALSE

AddEffectRnbo ==
    /\ pc = "effect"
    /\ LET r == add_rnbo_object(patcher, EffectName, args.effect_codebox_code,
                                args.effect_items_info_list, EffectMidi(args), EffectNVoices(args),
                                EffectTest(args), args.effect_num_inputs, args.effect_num_outputs, log)
       IN  /\ patcher' = r.patcher
           /\ log' = r.log
           /\ effect_rnbo' = r.rnbo
           /\ pc' = IF r.raised THEN "error" ELSE After("effect", args)
    /\ UNCHANGED <<args, dsp_rnbo, midi_in, midi_out, disk, io_args, io_result, result>>

\* lines 829-836
ConnectDspEffect ==
    /\ pc = "connect"
    /\ patcher' = connect_dsp_effect(patcher, dsp_rnbo, effect_rnbo, args.dsp_num_outputs,
                                     args.effect_num_inputs)
    /\ pc' = After("connect", args)
    /\ UNCHANGED <<args, dsp_rnbo, effect_rnbo, midi_in, midi_out, log, disk, io_args, io_result, result>>

\* lines 838-842
SaveEffectSubpatcher ==
    /\ pc = "save_effect"
    /\ disk' = Append(disk, [op |-> "saveas", path |-> RSplitDot(MaxpatPath) \o "_effect." \o "rnbopat",
                             content |-> patcher.boxes[effect_rnbo].subpatcher])
    /\ pc' = After("save_effect", args)
    /\ UNCHANGED <<args, patcher, dsp_rnbo, effect_rnbo, midi_in, midi_out, log, io_args, io_result, result>>

\* lines 844-846
ConnectEffectMidi ==
    /\ pc = "effect_midi"
    /\ patcher' = connect_midi(patcher, effect_rnbo, midi_in, midi_out)
    /\ pc' = After("effect_midi", args)
    /\ UNCHANGED <<args, dsp_rnbo, effect_rnbo, midi_in, midi_out, log, disk, io_args, io_result, result>>

\* the export trigger addressed to the last unit of the signal chain
AddCompileTestLastUnit ==
    /\ pc = "compile"
    /\ patcher' = IF args.effect_codebox_code # ""
                  THEN add_compile_test(patcher, effect_rnbo, ExportPath, CppFilename)
                  ELSE add_compile_test(patcher, dsp_rnbo, ExportPath, CppFilename)
    /\ pc' = After("compile", args)
    /\ UNCHANGED <<args, dsp_rnbo, effect_rnbo, midi_in, midi_out, log, disk, io_args, io_result, result>>

\* lines 848-850
AddCompileTest ==
    /\ pc = "compile"
    /\ patcher' = add_compile_test(patcher, dsp_rnbo, ExportPath, CppFilename)
    /\ pc' = After("compile", args)
    /\ UNCHANGED <<args, dsp_rnbo, effect_rnbo, midi_in, midi_out, log, disk, io_args, io_result, result>>

\* lines 852-858
CreateAudioOutput ==
    /\ pc = "audio_out"
    /\ patcher' = IF args.effect_codebox_code # ""
                  THEN create_audio_output(patcher, effect_rnbo, args.effect_num_outputs)
                  ELSE create_audio_output(patcher, dsp_rnbo, args.dsp_num_outputs)
    /\ pc' = After("audio_out", args)
    /\ UNCHANGED <<args, dsp_rnbo, effect_rnbo, midi_in, midi_out, log, disk, io_args, io_result, result>>

\* the audio input wired to the last unit of the signal chain
CreateAudioInputLastUnit ==
    /\ pc = "audio_in"
    /\ patcher' = IF args.effect_codebox_code # ""
                  THEN create_audio_input(patcher, effect_rnbo, args.dsp_num_inputs)
                  ELSE create_audio_input(patcher, dsp_rnbo, args.dsp_num_inputs)
    /\ pc' = After("audio_in", args)
    /\ UNCHANGED <<args, dsp_rnbo, effect_rnbo, midi_in, midi_out, log, disk, io_args, io_result, result>>

\* lines 860-862
CreateAudioInput ==
    /\ pc = "audio_in"
    /\ patcher' = create_audio_input(patcher, dsp_rnbo, args.dsp_num_inputs)
    /\ pc' = After("audio_in", args)
    /\ UNCHANGED <<args, dsp_rnbo, effect_rnbo, midi_in, midi_out, log, disk, io_args, io_result, result>>

\* lines 864-865
SavePatch ==
    /\ pc = "save"
    /\ disk' = Append(disk, [op |-> "save", path |-> MaxpatPath, content |-> patcher])
    /\ pc' = After("save", args)
    /\ UNCHANGED <<args, patcher, dsp_rnbo, effect_rnbo, midi_in, midi_out, log, io_args, io_result, result>>

Next ==
    \/ CreatePatcher
    \/ AddDspRnbo
    \/ GlobalMidi
    \/ SaveSubpatcher
    \/ AddEffectRnbo
    \/ ConnectDspEffect
    \/ SaveEffectSubpatcher
    \/ ConnectEffectMidi
    \/ AddCompileTest
    \/ CreateAudioOutput
    \/ CreateAudioInput
    \/ SavePatch

Spec == Init /\ [][Next]_vars

(***************************************************************************)
(* get_midi_and_nvoices                                                    *)
(***************************************************************************)
\* a Python value that may be None: <<>> for None, <<v>> for the value v
Unknown == <<>>

Known(v) == <<v>>

\* `sub in s` on strings
Contains(s, sub) ==
    \E k \in 1..(Len(s) - Len(sub) + 1) : SubSeq(s, k, k + Len(sub) - 1) = sub

Digits == <<"0", "1", "2", "3", "4", "5", "6", "7", "8", "9">>

IsDigit(c) == \E d \in DOMAIN Digits : Digits[d] = c

DigitValue(c) == (CHOOSE d \in DOMAIN Digits : Digits[d] = c) - 1

\* int(s) of a string of digits
RECURSIVE ParseInt(_)
ParseInt(s) ==
    IF s = "" THEN 0
    ELSE ParseInt(SubSeq(s, 1, Len(s) - 1)) * 10 + DigitValue(SubSeq(s, Len(s), Len(s)))

\* the length of the longest run of digits of s that starts at position k
DigitRun(s, k) ==
    LET ends == {n \in 0..(Len(s) - k + 1) : \A j \in k..(k + n - 1) : IsDigit(SubSeq(s, j, j))}
    IN  CHOOSE n \in ends : \A m \in ends : m <= n

\* \[nvoices:(\d+)\] matches at position k of s
NVoicesMatchAt(s, k) ==
    /\ k + 8 <= Len(s)
    /\ SubSeq(s, k, k + 8) = "[nvoices:"
    /\ DigitRun(s, k + 9) >= 1
    /\ k + 9 + DigitRun(s, k + 9) <= Len(s)
    /\ SubSeq(s, k + 9 + DigitRun(s, k + 9), k + 9 + DigitRun(s, k + 9)) = "]"

\* re.search(r"\[nvoices:(\d+)\]", options): the leftmost match, <<>> when there is none,
\* else <<group(1)>>
nvoices_match(options) ==
    LET starts == {k \in 1..Len(options) : NVoicesMatchAt(options, k)}
    IN  IF starts = {} THEN <<>>
        ELSE LET k == CHOOSE j \in starts : \A m \in starts : j <= m
             IN  <<SubSeq(options, k + 9, k + 8 + DigitRun(options, k + 9))>>

\* lines 82-88: what one entry with options sets, nvoices keeping its value without a match
ReadOptions(options, nvoices) ==
    <<Known(Contains(options, "[midi:on]")),
      IF nvoices_match(options) # <<>> THEN Known(ParseInt(nvoices_match(options)[1])) ELSE nvoices>>

\* the loop of lines 79-89 without its break: every entry with options is read
RECURSIVE MetaLoopNoBreak(_, _)
MetaLoopNoBreak(global_meta, state) ==
    IF global_meta = <<>> THEN state
    ELSE IF "options" \in DOMAIN Head(global_meta)
    THEN MetaLoopNoBreak(Tail(global_meta), ReadOptions(Head(global_meta).options, state[2]))
    ELSE MetaLoopNoBreak(Tail(global_meta), state)

\* the loop of lines 79-89: the state is (midi_state, nvoices)
RECURSIVE MetaLoop(_, _)
MetaLoop(global_meta, state) ==
    IF global_meta = <<>> THEN state
    ELSE IF "options" \in DOMAIN Head(global_meta)
    THEN ReadOptions(Head(global_meta).options, state[2])
    ELSE MetaLoop(Tail(global_meta), state)

\* get_midi_and_nvoices with the scan going on after the first entry with options
get_midi_and_nvoices_no_break(json_data) == MetaLoopNoBreak(json_data.meta, <<Unknown, Unknown>>)

get_midi_and_nvoices(json_data) == MetaLoop(json_data.meta, <<Unknown, Unknown>>)

\* Inputs: the options strings and the entries of a global meta array
OptionsStrings ==
    {"", "[midi:on]", "[midi:on][nvoices:4]", "[nvoices:12][midi:off]", "[nvoices:][nvoices:x][nvoices:3]"}

MetaEntries == {[name |-> "organ"]} \cup {[options |-> o] : o \in OptionsStrings}

MaxMeta == 3

MetaArrays == UNION {[1..n -> MetaEntries] : n \in 0..MaxMeta}

(***************************************************************************)
(* The options reader on its own: one call of get_midi_and_nvoices.        *)
(***************************************************************************)
InitOptions ==
    /\ pc = "options_call"
    /\ args \in {[meta |-> m] : m \in MetaArrays}
    /\ patcher = EmptyPatcher
    /\ io_args = NoPlanArgs
    /\ io_result = NoPlan
    /\ Idle

OptionsCall ==
    /\ pc = "options_call"
    /\ result' = get_midi_and_nvoices(args)
    /\ pc' = "options_done"
    /\ UNCHANGED <<args, patcher, dsp_rnbo, effect_rnbo, midi_in, midi_out, log, disk, io_args, io_result>>

NextOptions == OptionsCall

SpecOptions == InitOptions /\ [][NextOptions]_vars

(***************************************************************************)
(* extract_items_info                                                      *)
(***************************************************************************)
\* item.get(key, default)
Get(item, key, default) == IF key \in DOMAIN item THEN item[key] ELSE default

\* s.split(): the words of s between blanks
RECURSIVE Split(_)
Split(s) ==
    IF s = "" THEN <<>>
    ELSE IF SubSeq(s, 1, 1) = " " THEN Split(SubSeq(s, 2, Len(s)))
    ELSE LET blanks == {k \in 1..Len(s) : SubSeq(s, k, k) = " "}
             stop == IF blanks = {} THEN Len(s) + 1
                     ELSE CHOOSE k \in blanks : \A j \in blanks : k <= j
         IN  <<SubSeq(s, 1, stop - 1)>> \o Split(SubSeq(s, stop, Len(s)))

\* lines 121-124: the words of the midi entries of the item's meta list
RECURSIVE midi_info(_)
midi_info(meta) ==
    IF meta = <<>> THEN <<>>
    ELSE (IF "midi" \in DOMAIN Head(meta) THEN Split(Head(meta).midi) ELSE <<>>)
            \o midi_info(Tail(meta))

HasRange(item) == \A key \in {"min", "max", "step"} : key \in DOMAIN item

\* lines 117-151: the descriptors one item appends (one or none), the recursion apart
Descriptors(item) ==
    LET shortname == Get(item, "shortname", "")
        item_type == Get(item, "type", "")
        midi == midi_info(Get(item, "meta", <<>>))
    IN  IF item_type \in {"button", "checkbox"}
        THEN <<Item(shortname, item_type, 0, 0, 1, 1, midi)>>
        ELSE IF HasRange(item)
        THEN <<Item(shortname, item_type, Get(item, "init", 0), item.min, item.max, item.step, midi)>>
        ELSE <<>>

\* extract_from_ui with the children read only under an item that gave no descriptor
RECURSIVE extract_from_ui_leaves_only(_)
extract_from_ui_leaves_only(ui_items) ==
    IF ui_items = <<>> THEN <<>>
    ELSE LET item == Head(ui_items)
         IN  (IF Descriptors(item) # <<>> THEN Descriptors(item)
              ELSE IF "items" \in DOMAIN item THEN extract_from_ui_leaves_only(item.items)
              ELSE <<>>)
                \o extract_from_ui_leaves_only(Tail(ui_items))

RECURSIVE extract_from_ui(_)
extract_from_ui(ui_items) ==
    IF ui_items = <<>> THEN <<>>
    ELSE LET item == Head(ui_items)
         IN  Descriptors(item)
                \o (IF "items" \in DOMAIN item THEN extract_from_ui(item.items) ELSE <<>>)
                \o extract_from_ui(Tail(ui_items))

extract_items_info(json_data) ==
    IF "ui" \in DOMAIN json_data THEN extract_from_ui(json_data.ui) ELSE <<>>

\* Inputs: the nodes of a UI tree
ButtonNode ==
    [type |-> "button", shortname |-> "gate", init |-> 1, min |-> 2, max |-> 3, step |-> 4]

CheckboxNode == [type |-> "checkbox", shortname |-> "mute", meta |-> <<[midi |-> "ctrl 7"]>>]

SliderNode ==
    [type |-> "hslider", shortname |-> "freq", init |-> 4, min |-> 2, max |-> 9, step |-> 1,
     meta |-> <<[style |-> "knob"], [midi |-> " pitchwheel "]>>]

NoStepNode == [type |-> "vbargraph", shortname |-> "level", min |-> 0, max |-> 1]

LeafNodes == {ButtonNode, CheckboxNode, SliderNode, NoStepNode}

\* a group without a range, and a node with a range and children
PlainGroup(items) == [type |-> "vgroup", label |-> "voice", items |-> items]

RangedGroup(items) ==
    [type |-> "nentry", shortname |-> "bank", min |-> 0, max |-> 3, step |-> 1, items |-> items]

MaxNodes == 3

\* the item lists with n nodes in all, and the items with n nodes
RECURSIVE Forests(_)
RECURSIVE Trees(_)
Forests(n) ==
    IF n = 0 THEN {<<>>}
    ELSE UNION {{<<t>> \o f : t \in Trees(k), f \in Forests(n - k)} : k \in 1..n}

Trees(n) ==
    (IF n = 1 THEN LeafNodes ELSE {})
        \cup {PlainGroup(f) : f \in Forests(n - 1)}
        \cup {RangedGroup(f) : f \in Forests(n - 1)}

Documents ==
    {[name |-> "organ"]} \cup {[name |-> "organ", ui |-> f] : f \in UNION {Forests(n) : n \in 0..MaxNodes}}

(***************************************************************************)
(* The UI reader on its own: one call of extract_items_info.               *)
(***************************************************************************)
InitExtract ==
    /\ pc = "extract_call"
    /\ args \in Documents
    /\ patcher = EmptyPatcher
    /\ io_args = NoPlanArgs
    /\ io_result = NoPlan
    /\ Idle

ExtractCall ==
    /\ pc = "extract_call"
    /\ result' = extract_items_info(args)
    /\ pc' = "extract_done"
    /\ UNCHANGED <<args, patcher, dsp_rnbo, effect_rnbo, midi_in, midi_out, log, disk, io_args, io_result>>

NextExtract == ExtractCall

SpecExtract == InitExtract /\ [][NextExtract]_vars

(***************************************************************************)
(* load_files_create_rnbo_patch: the MIDI flag and the voice count that    *)
(* are passed to create_rnbo_patch                                         *)
(***************************************************************************)
\* `midi or options[0]`
MidiOr(midi, midi_state) == IF midi THEN Known(TRUE) ELSE midi_state

\* the truth value of an int that may be None
Truthy(value) == value # Unknown /\ value[1] # 0

\* `options[1] if options[1] else -1`
OptionsVoices(options) == IF Truthy(options[2]) THEN options[2][1] ELSE -1

\* line 939: `nvoices > 0` is evaluated on the nvoices of the command line as it is
VoicesWithEffect(nvoices, options) ==
    IF nvoices = Unknown THEN [raised |-> TRUE, error |-> "TypeError"]
    ELSE [raised |-> FALSE, value |-> IF nvoices[1] > 0 THEN nvoices[1] ELSE OptionsVoices(options)]

\* lines 961-965
VoicesWithoutEffect(nvoices, options) ==
    [raised |-> FALSE,
     value |-> IF nvoices # Unknown /\ nvoices[1] > 0 THEN nvoices[1] ELSE OptionsVoices(options)]

\* line 916
EffectGiven(a) == a.effect_codebox_path # Unknown /\ a.effect_json_path # Unknown

\* the call of create_rnbo_patch that load_files_create_rnbo_patch makes, or the error
\* raised while its arguments are evaluated
load_files_create_rnbo_patch(a) ==
    LET options == get_midi_and_nvoices(a.dsp_json)
        voices == IF EffectGiven(a) THEN VoicesWithEffect(a.nvoices, options)
                  ELSE VoicesWithoutEffect(a.nvoices, options)
    IN  IF voices.raised
        THEN [raised |-> TRUE, error |-> voices.error]
        ELSE [raised |-> FALSE, midi |-> MidiOr(a.midi, options[1]), nvoices |-> voices.value,
              effect |-> EffectGiven(a)]

\* Inputs: the command line and the DSP's JSON file
CliVoiceCounts == {Unknown} \cup {Known(n) : n \in -1..MaxVoices}

OptionalPaths(path) == {Unknown, Known(path)}

LoadMetaArrays ==
    {<<>>} \cup {<<e>> : e \in MetaEntries \cup {[options |-> "[midi:on][nvoices:0]"]}}

InitLoad ==
    /\ pc = "load_call"
    /\ args \in [midi : BOOLEAN, nvoices : CliVoiceCounts,
                 effect_codebox_path : OptionalPaths("effect.codebox"),
                 effect_json_path : OptionalPaths("effect.json"),
                 dsp_json : {[meta |-> m] : m \in LoadMetaArrays}]
    /\ patcher = EmptyPatcher
    /\ io_args = NoPlanArgs
    /\ io_result = NoPlan
    /\ Idle

LoadCall ==
    /\ pc = "load_call"
    /\ result' = load_files_create_rnbo_patch(args)
    /\ pc' = "load_done"
    /\ UNCHANGED <<args, patcher, dsp_rnbo, effect_rnbo, midi_in, midi_out, log, disk, io_args, io_result>>

NextLoad == LoadCall

SpecLoad == InitLoad /\ [][NextLoad]_vars

(***************************************************************************)
(* Properties of the Port Planner                                          *)
(***************************************************************************)
PlanDone == pc = "plan_done"

\* C1: for every num_inputs >= 0, num_outputs >= 0 and midi flag, generate_io_info
\* returns a plan, and the plan has at least one inlet and at least one outlet.
C1_PlanHasInletAndOutlet ==
    PlanDone => /\ ~io_result.raised
                /\ io_result.inlets >= 1
                /\ io_result.outlets >= 1

\* the signal inlets of a unit, its placeholder inlet included
SignalInletCount(num_inputs) == IF num_inputs = 0 THEN 1 ELSE num_inputs

\* C2: for every MIDI-enabled unit the planner yields a plan with one inlet more
\* than the signal inlets, whose only midi entry is the last entry of inlet_roles and
\* carries the index num_inlets, every other entry being a signal entry.
C2_MidiInletIsLast ==
    PlanDone /\ io_args.midi =>
        /\ ~io_result.raised
        /\ io_result.inlets = SignalInletCount(io_args.num_inputs) + 1
        /\ Cardinality(EntriesOfType(io_result.inletInfo, "midi")) = 1
        /\ io_result.inletInfo[Len(io_result.inletInfo)].type = "midi"
        /\ io_result.inletInfo[Len(io_result.inletInfo)].index = io_result.inlets
        /\ \A k \in 1..(Len(io_result.inletInfo) - 1) : io_result.inletInfo[k].type = "signal"

\* C3: for every unit the planner yields a plan whose num_outlets is the number of
\* signal outlets plus 3 with MIDI and plus 2 without, num_outputs = 0 included.
C3_OutletCount ==
    PlanDone =>
        /\ ~io_result.raised
        /\ io_result.outlets = Cardinality(EntriesOfType(io_result.outletInfo, "signal"))
                                 + (IF io_args.midi THEN 3 ELSE 2)

(***************************************************************************)
(* Reading a built graph                                                   *)
(***************************************************************************)
Lines(p) == {p.lines[k] : k \in DOMAIN p.lines}

\* the positions of the lines of p that satisfy a test
LinesBetween(p, src, dst) == {k \in DOMAIN p.lines : p.lines[k].src = src /\ p.lines[k].dst = dst}

HasLine(p, src, dst, outlet, inlet) ==
    [src |-> src, dst |-> dst, outlet |-> outlet, inlet |-> inlet] \in Lines(p)

BoxesWithText(p, text) ==
    {b \in DOMAIN p.boxes : "text" \in DOMAIN p.boxes[b] /\ p.boxes[b].text = text}

Subpatcher(unit) == patcher.boxes[unit].subpatcher

(***************************************************************************)
(* Properties of the assembled patch                                       *)
(***************************************************************************)
\* the units the global MIDI nodes have been connected to
MidiWiredUnits ==
    {u \in {dsp_rnbo, effect_rnbo} \ {None} : midi_in # None /\ LinesBetween(patcher, midi_in, u) # {}}

\* C4: a MIDI-enabled unit has exactly one outlet entry tagged midi, at the zero-based
\* index num_outlets - 3, which no signal outlet has, and connect_midi wires the global
\* midiout from that outlet and the global midiin into the inlet tagged midi.
C4_MidiOutletThirdFromLast ==
    \A u \in MidiWiredUnits :
        LET box == patcher.boxes[u]
            midi_outlets == EntriesOfType(box.outletInfo, "midi")
            midi_inlets == EntriesOfType(box.inletInfo, "midi")
        IN  /\ Cardinality(midi_outlets) = 1
            /\ Cardinality(midi_inlets) = 1
            /\ \A k \in midi_outlets :
                  /\ box.outletInfo[k].index - 1 = box.numoutlets - 3
                  /\ \A j \in EntriesOfType(box.outletInfo, "signal") :
                        box.outletInfo[j].index # box.outletInfo[k].index
                  /\ HasLine(patcher, u, midi_out, box.outletInfo[k].index - 1, 0)
            /\ \A k \in midi_inlets :
                  HasLine(patcher, midi_in, u, 0, box.inletInfo[k].index - 1)

\* the DSP-to-effect wiring of section 4.5, as (DSP outlet, effect inlet) pairs
AdapterTable(dsp_num_outputs, effect_num_inputs) ==
    CASE dsp_num_outputs = 1 /\ effect_num_inputs = 1 -> {<<0, 0>>}
      [] dsp_num_outputs = 1 /\ effect_num_inputs = 2 -> {<<0, 0>>, <<0, 1>>}
      [] dsp_num_outputs = 2 /\ effect_num_inputs = 1 -> {<<0, 0>>, <<1, 0>>}
      [] dsp_num_outputs = 2 /\ effect_num_inputs = 2 -> {<<0, 0>>, <<1, 1>>}
      [] OTHER -> {}

AdapterEdges ==
    {<<patcher.lines[k].outlet, patcher.lines[k].inlet>> : k \in LinesBetween(patcher, dsp_rnbo, effect_rnbo)}

\* connect_dsp_effect has run
PostConnect == effect_rnbo # None /\ pc # "connect"

UnsupportedPair == AdapterTable(args.dsp_num_outputs, args.effect_num_inputs) = {}

\* a message of add_midi_control, the only function that logs
IsMidiControlMessage(m) == Len(m) >= 17 /\ SubSeq(m, 1, 17) = "MIDI control type"

\* the patch is complete: the effect unit, the audio output fed by it, and the saved document
EffectPatchComplete ==
    /\ patcher.boxes[effect_rnbo].maxclass = "rnbo~"
    /\ patcher.boxes[effect_rnbo].title = "Effect"
    /\ \E dac \in BoxesWithText(patcher, "dac~ " \o ChannelList(args.effect_num_outputs)) :
          Cardinality(LinesBetween(patcher, effect_rnbo, dac)) = args.effect_num_outputs
    /\ disk # <<>>
    /\ disk[Len(disk)] = [op |-> "save", path |-> MaxpatPath, content |-> patcher]

AdapterEdgesAsTable ==
    /\ AdapterEdges = AdapterTable(args.dsp_num_outputs, args.effect_num_inputs)
    /\ Cardinality(LinesBetween(patcher, dsp_rnbo, effect_rnbo)) = Cardinality(AdapterEdges)

\* C5 (as amended): once connect_dsp_effect has run, the DSP-to-effect edges are exactly
\* those of the table, none for a pair outside it; nothing is logged for such a pair;
\* and no later step fails: the patch is completed with the effect unit, the audio
\* output and the save.
C5_AdapterTable ==
    PostConnect =>
        /\ AdapterEdgesAsTable
        /\ \A k \in DOMAIN log : IsMidiControlMessage(log[k])
        /\ pc # "error"
        /\ pc = "done" => EffectPatchComplete

\* C5 as stated: for a pair outside the table the condition is also logged.
C5_UnsupportedPairLogged ==
    PostConnect =>
        /\ AdapterEdgesAsTable
        /\ UnsupportedPair => \E k \in DOMAIN log : ~IsMidiControlMessage(log[k])
        /\ pc # "error"
        /\ pc = "done" => EffectPatchComplete

C5_Witness ==
    /\ PostConnect
    /\ pc = "done"
    /\ UnsupportedPair
    /\ args.dsp_num_outputs = 2

\* boxes that only add_polyphony_control creates
PolyphonyBoxes(sub) ==
    BoxesWithText(sub, "notein") \cup BoxesWithText(sub, "mtof") \cup BoxesWithText(sub, "> 0")

HasSupportedBinding(item) == item.midi # <<>> /\ item.midi[1] \in MidiTypes

\* the MIDI-receive boxes of an item's input chain
MidiReceiveBoxes(sub, item) ==
    BoxesWithText(sub, midi_mapping(item.midi[1]).in \o " " \o Join(Tail(item.midi)))

\* the MIDI-send boxes of an item's output chain
MidiSendBoxes(sub, item) ==
    BoxesWithText(sub, midi_mapping(item.midi[1]).out \o " " \o Join(Tail(item.midi)))

BoundItems(items) == {k \in DOMAIN items : HasSupportedBinding(items[k])}

EffectNotPolyphonic ==
    /\ "polyphony" \notin DOMAIN patcher.boxes[effect_rnbo].saved_object_attributes
    /\ PolyphonyBoxes(Subpatcher(effect_rnbo)) = {}

\* the effect has its MIDI ports, its parameters' MIDI chains and its connection to
\* the global MIDI nodes
EffectMidiPorts ==
    /\ EntriesOfType(patcher.boxes[effect_rnbo].inletInfo, "midi") # {}
    /\ EntriesOfType(patcher.boxes[effect_rnbo].outletInfo, "midi") # {}

EffectMidiChains ==
    \E k \in BoundItems(args.effect_items_info_list) :
        \/ MidiReceiveBoxes(Subpatcher(effect_rnbo), args.effect_items_info_list[k]) # {}
        \/ MidiSendBoxes(Subpatcher(effect_rnbo), args.effect_items_info_list[k]) # {}

EffectAllMidiChains ==
    \A k \in BoundItems(args.effect_items_info_list) :
        /\ MidiReceiveBoxes(Subpatcher(effect_rnbo), args.effect_items_info_list[k]) # {}
        /\ MidiSendBoxes(Subpatcher(effect_rnbo), args.effect_items_info_list[k]) # {}

EffectMidiConnected ==
    \/ midi_in # None /\ LinesBetween(patcher, midi_in, effect_rnbo) # {}
    \/ midi_out # None /\ LinesBetween(patcher, effect_rnbo, midi_out) # {}

\* C6 (as amended): the effect unit is never polyphonic, whatever the DSP's voice count,
\* but it is built with the DSP's MIDI flag: with MIDI on it has a MIDI inlet and outlet,
\* the MIDI chains of its MIDI-bound parameters and, in the finished patch, lines from
\* the global midiin and to the global midiout; with MIDI off it has none of them.
C6_EffectNotPolyphonicMidiAsDsp ==
    effect_rnbo # None =>
        /\ EffectNotPolyphonic
        /\ EffectMidiPorts <=> args.midi
        /\ args.midi => EffectAllMidiChains
        /\ ~args.midi => ~EffectMidiChains /\ ~EffectMidiConnected
        /\ pc = "done" /\ args.midi =>
              /\ HasLine(patcher, midi_in, effect_rnbo, 0, patcher.boxes[effect_rnbo].numinlets - 1)
              /\ HasLine(patcher, effect_rnbo, midi_out, patcher.boxes[effect_rnbo].numoutlets - 3, 0)

\* C6 as stated: the effect unit has no MIDI port, no MIDI chain, no connection to the
\* global MIDI nodes, and is not polyphonic.
C6_EffectNeverMidi ==
    effect_rnbo # None =>
        /\ EffectNotPolyphonic
        /\ ~EffectMidiPorts
        /\ ~EffectMidiChains
        /\ ~EffectMidiConnected

C6_Witness ==
    /\ effect_rnbo # None
    /\ pc = "done"
    /\ args.midi
    /\ args.nvoices > 0
    /\ args.effect_items_info_list = PolyItems
    /\ EffectMidiConnected

(***************************************************************************)
(* Properties of one unit                                                  *)
(***************************************************************************)
UnitDone == pc = "unit_done"

UnitSub == Subpatcher(dsp_rnbo)

\* the source-code node is the first box of a unit's subpatcher
UnitCodebox == 1

StartsWith(s, prefix) == Len(s) >= Len(prefix) /\ SubSeq(s, 1, Len(prefix)) = prefix

LabelOf(item) == build_label(item.type, item.shortname, args.test)

\* the relay nodes of an item
Relays(item) == BoxesWithText(UnitSub, "set " \o LabelOf(item))

\* the inner apply-parameter nodes of an item
ParamBoxes(item) ==
    {b \in DOMAIN UnitSub.boxes :
        /\ "text" \in DOMAIN UnitSub.boxes[b]
        /\ StartsWith(UnitSub.boxes[b].text, "param " \o LabelOf(item) \o " ")}

\* the outer control nodes of an item
OuterControls(item) ==
    {b \in DOMAIN patcher.boxes :
        /\ patcher.boxes[b].maxclass = "attrui"
        /\ patcher.boxes[b].attr = LabelOf(item)}

\* outer control -> unit, inner param -> relay -> source-code node
ParamWired(item) ==
    /\ \E w \in OuterControls(item) : HasLine(patcher, w, dsp_rnbo, 0, 0)
    /\ \E r \in Relays(item) :
          /\ HasLine(UnitSub, r, UnitCodebox, 0, 0)
          /\ \E q \in ParamBoxes(item) : HasLine(UnitSub, q, r, 0, 0)

AllParamsWired == \A k \in DOMAIN args.items : ParamWired(args.items[k])

HasRoleParam(suffixes) ==
    \E k \in DOMAIN args.items : \E suffix \in suffixes : EndsWith(args.items[k].shortname, suffix)

RolesComplete ==
    /\ HasRoleParam({"freq", "key"})
    /\ HasRoleParam({"gain", "velocity"})
    /\ HasRoleParam({"gate"})

PolyphonyBuilt == BoxesWithText(UnitSub, "notein") # {}

\* a line from src, outlet `outlet`, that reaches a relay directly or through one box
\* with the text `via`
ReachesRelay(src, outlet, via, suffixes) ==
    \E k \in DOMAIN args.items : \E r \in Relays(args.items[k]) :
        /\ \E suffix \in suffixes : EndsWith(args.items[k].shortname, suffix)
        /\ \/ HasLine(UnitSub, src, r, outlet, 0)
           \/ \E m \in BoxesWithText(UnitSub, via) :
                 HasLine(UnitSub, src, m, outlet, 0) /\ HasLine(UnitSub, m, r, 0, 0)

\* one note-receive node with its pitch, gain and gate paths
PolyphonySubgraph ==
    /\ Cardinality(BoxesWithText(UnitSub, "notein")) = 1
    /\ \A n \in BoxesWithText(UnitSub, "notein") :
          /\ ReachesRelay(n, 0, "mtof", {"freq", "key"})
          /\ ReachesRelay(n, 1, "scale 0 127 0 1", {"gain", "velocity"})
          /\ \E g \in BoxesWithText(UnitSub, "> 0") :
                /\ HasLine(UnitSub, n, g, 1, 0)
                /\ \E k \in DOMAIN args.items : \E r \in Relays(args.items[k]) :
                      EndsWith(args.items[k].shortname, "gate") /\ HasLine(UnitSub, g, r, 0, 0)

\* the parameters whose MIDI binding add_midi_control wires
WiredBindings == IF args.midi THEN BoundItems(args.items) ELSE {}

\* boxes and lines of a unit's subpatcher apart from the polyphony sub-graph: the
\* source-code node, the in~ and out~ boxes, two boxes per parameter, four per MIDI chain
PlainBoxCount ==
    1 + (IF args.num_inputs = 0 THEN 1 ELSE args.num_inputs) + args.num_outputs
      + 2 * Len(args.items) + 4 * Cardinality(WiredBindings)

PlainLineCount ==
    (IF args.num_inputs = 0 THEN 1 ELSE args.num_inputs) + args.num_outputs
      + 2 * Len(args.items) + 4 * Cardinality(WiredBindings)

\* C7: the polyphony sub-graph is built for a unit if and only if the unit is
\* MIDI-enabled, voice_count > 0 and pitch, gain and gate are each found on some
\* parameter; with a role missing no node or edge of it exists, and in both cases
\* every parameter has its control and relay wiring.
C7_PolyphonyIffComplete ==
    UnitDone =>
        /\ PolyphonyBuilt <=> (args.midi /\ args.nvoices > 0 /\ RolesComplete)
        /\ PolyphonyBuilt => PolyphonySubgraph
        /\ ~PolyphonyBuilt =>
              /\ PolyphonyBoxes(UnitSub) = {}
              /\ Len(UnitSub.boxes) = PlainBoxCount
              /\ Len(UnitSub.lines) = PlainLineCount
        /\ AllParamsWired

C7_Witness ==
    /\ UnitDone
    /\ PolyphonyBuilt
    /\ args.nvoices > 0
    /\ args.items = PolyItems

HasUnsupportedBinding(item) == item.midi # <<>> /\ item.midi[1] \notin MidiTypes

\* the boxes of the subpatcher that the polyphony sub-graph adds when it is built
PolyphonyBoxCount ==
    Cardinality(PolyphonyBoxes(UnitSub))
      + (IF \E n \in BoxesWithText(UnitSub, "notein") : \E m \in BoxesWithText(UnitSub, "scale 0 127 0 1") :
                HasLine(UnitSub, n, m, 1, 0)
         THEN 1 ELSE 0)

\* C8: in a MIDI-enabled unit a parameter whose MIDI binding names an unsupported
\* control class gets no MIDI node and no MIDI edge (the only line into its relay
\* comes from its param node, and the subpatcher has no box beyond those of the
\* other features); the error is logged, the parameters after it are wired, and its
\* own outer control, param node and relay are present with their edges.
C8_UnsupportedBindingSkipped ==
    UnitDone /\ args.midi =>
        \A k \in DOMAIN args.items :
            HasUnsupportedBinding(args.items[k]) =>
                /\ ParamWired(args.items[k])
                /\ \A r \in Relays(args.items[k]) : \A l \in Lines(UnitSub) :
                      l.dst = r => l.src \in ParamBoxes(args.items[k])
                /\ BoxesWithText(UnitSub, Join(args.items[k].midi)) = {}
                /\ Len(UnitSub.boxes) = PlainBoxCount + PolyphonyBoxCount
                /\ \E m \in DOMAIN log :
                      log[m] = "MIDI control type '" \o args.items[k].midi[1] \o "' not supported"
                /\ AllParamsWired

C8_Witness ==
    /\ UnitDone
    /\ args.midi
    /\ Len(args.items) = 3
    /\ args.items[1] = MuteItem
    /\ args.items[2] = GainItem
    /\ ParamWired(args.items[3])

\* the range of values of the MIDI device for a control class
DeviceRange(midi_type) == IF midi_type = "pitchwheel" THEN <<-1, 1>> ELSE <<0, 127>>

\* the text of a rescale node from [a, b] onto [c, d]
Rescale(a, b, c, d) ==
    "scale " \o ToString(a) \o " " \o ToString(b) \o " " \o ToString(c) \o " " \o ToString(d)

\* C9: a parameter with a supported MIDI binding has the input chain MIDI-receive ->
\* rescale(device range -> [min, max]) -> relay and the output chain source-code node
\* -> rescale([min, max] -> device range) -> MIDI-send, the device range being -1..1
\* for pitch-bend and 0..127 otherwise, the same in both chains.
C9_RescaleDeviceRange ==
    UnitDone /\ args.midi =>
        \A k \in BoundItems(args.items) :
            LET item == args.items[k]
                range == DeviceRange(item.midi[1])
            IN  /\ \E recv \in MidiReceiveBoxes(UnitSub, item) :
                   \E scale \in BoxesWithText(UnitSub, Rescale(range[1], range[2], item.min, item.max)) :
                   \E r \in Relays(item) :
                      HasLine(UnitSub, recv, scale, 0, 0) /\ HasLine(UnitSub, scale, r, 0, 0)
                /\ \E send \in MidiSendBoxes(UnitSub, item) :
                   \E scale \in BoxesWithText(UnitSub, Rescale(item.min, item.max, range[1], range[2])) :
                      HasLine(UnitSub, UnitCodebox, scale, 0, 0) /\ HasLine(UnitSub, scale, send, 0, 0)

\* what a control node declares for an item: 0 and [0, 1] for a button or checkbox
Declared(item) ==
    IF item.type \in {"button", "checkbox"}
    THEN [init |-> 0, min |-> 0, max |-> 1]
    ELSE [init |-> item.init, min |-> item.min, max |-> item.max]

\* the text of a param node that declares init, min and max for a label
ParamDeclaration(label, d) ==
    "param " \o label \o " " \o ToString(d.init) \o " @min " \o ToString(d.min)
        \o " @max " \o ToString(d.max)

\* C10: every parameter has one outer control node bound to its label that declares the
\* initial value init and the range [min, max] (0 and [0, 1] for a button or checkbox),
\* one inner param node that declares the same init, min and max, and exactly one relay
\* node, with the edges inner param -> relay -> source-code node and outer control -> unit.
C10_ControlsDeclareInitAndRange ==
    UnitDone =>
        \A k \in DOMAIN args.items :
            LET item == args.items[k]
                d == Declared(item)
            IN  /\ Cardinality(OuterControls(item)) = 1
                /\ \A w \in OuterControls(item) :
                      /\ patcher.boxes[w].parameter_initial = <<LabelOf(item), d.init>>
                      /\ patcher.boxes[w].minimum = d.min
                      /\ patcher.boxes[w].maximum = d.max
                      /\ HasLine(patcher, w, dsp_rnbo, 0, 0)
                /\ Cardinality(ParamBoxes(item)) = 1
                /\ \A q \in ParamBoxes(item) :
                      UnitSub.boxes[q].text = ParamDeclaration(LabelOf(item), d)
                /\ Cardinality(Relays(item)) = 1
                /\ \A r \in Relays(item) :
                      /\ HasLine(UnitSub, r, UnitCodebox, 0, 0)
                      /\ \A q \in ParamBoxes(item) : HasLine(UnitSub, q, r, 0, 0)

C10_Witness ==
    /\ UnitDone
    /\ \E k \in DOMAIN args.items : args.items[k] = CutoffItem
    /\ \E k \in DOMAIN args.items : args.items[k] = GateItem
    /\ \E w \in OuterControls(CutoffItem) :
          /\ patcher.boxes[w].parameter_initial[2] = 3
          /\ patcher.boxes[w].minimum = 0
          /\ patcher.boxes[w].maximum = 10

(***************************************************************************)
(* Labels of the parameters of the two units                               *)
(***************************************************************************)
\* the label of section 4.3: "RB_" + kind + "_" + shortname in test mode, else shortname
TestLabel(item, testMode) ==
    IF testMode THEN "RB_" \o item.type \o "_" \o item.shortname ELSE item.shortname

RelaysOf(unit, label) == BoxesWithText(Subpatcher(unit), "set " \o label)

ParamBoxesOf(unit, label) ==
    {b \in DOMAIN Subpatcher(unit).boxes :
        /\ "text" \in DOMAIN Subpatcher(unit).boxes[b]
        /\ StartsWith(Subpatcher(unit).boxes[b].text, "param " \o label \o " ")}

\* the outer controls bound to a label that feed a unit
OuterControlsOf(unit, label) ==
    {b \in DOMAIN patcher.boxes :
        /\ patcher.boxes[b].maxclass = "attrui"
        /\ patcher.boxes[b].attr = label
        /\ HasLine(patcher, b, unit, 0, 0)}

\* the relay, the inner param node and the outer control of a unit's parameter all
\* carry `label`, one of each
LabelledAs(unit, label) ==
    /\ Cardinality(RelaysOf(unit, label)) = 1
    /\ Cardinality(ParamBoxesOf(unit, label)) = 1
    /\ Cardinality(OuterControlsOf(unit, label)) = 1

\* no node of the unit's parameter wiring carries `label`
NotLabelledAs(unit, label) ==
    /\ RelaysOf(unit, label) = {}
    /\ ParamBoxesOf(unit, label) = {}
    /\ OuterControlsOf(unit, label) = {}

DspLabelsFollowTestMode ==
    dsp_rnbo # None =>
        \A k \in DOMAIN args.dsp_items_info_list :
            LabelledAs(dsp_rnbo, TestLabel(args.dsp_items_info_list[k], args.test))

\* C11 (as amended): in the DSP unit every parameter's relay, inner param node and outer
\* control carry "RB_" + kind + "_" + shortname when testMode is true and shortname when
\* it is false; in the effect unit they carry shortname in both modes.
C11_TestLabelsDspOnly ==
    /\ DspLabelsFollowTestMode
    /\ effect_rnbo # None =>
          \A k \in DOMAIN args.effect_items_info_list :
              LET item == args.effect_items_info_list[k]
              IN  /\ LabelledAs(effect_rnbo, item.shortname)
                  /\ NotLabelledAs(effect_rnbo, TestLabel(item, TRUE))

\* C11 as stated: the parameters of the effect unit follow testMode as those of the DSP do.
C11_TestLabelsBothUnits ==
    /\ DspLabelsFollowTestMode
    /\ effect_rnbo # None =>
          \A k \in DOMAIN args.effect_items_info_list :
              LabelledAs(effect_rnbo, TestLabel(args.effect_items_info_list[k], args.test))

C11_Witness ==
    /\ pc = "done"
    /\ args.test
    /\ effect_rnbo # None
    /\ args.dsp_items_info_list = PolyItems
    /\ args.effect_items_info_list = PolyItems
    /\ RelaysOf(dsp_rnbo, "RB_hslider_voice_freq") # {}
    /\ RelaysOf(effect_rnbo, "voice_freq") # {}

(***************************************************************************)
(* Properties of the options reader                                        *)
(***************************************************************************)
OptionsDone == pc = "options_done"

\* what each options string of the model says: (midi on, voice count if any)
OptionsFacts(options) ==
    CASE options = "" -> <<FALSE, Unknown>>
      [] options = "[midi:on]" -> <<TRUE, Unknown>>
      [] options = "[midi:on][nvoices:4]" -> <<TRUE, Known(4)>>
      [] options = "[nvoices:12][midi:off]" -> <<FALSE, Known(12)>>
      [] options = "[nvoices:][nvoices:x][nvoices:3]" -> <<FALSE, Known(3)>>

EntriesWithOptions(meta) == {k \in DOMAIN meta : "options" \in DOMAIN meta[k]}

FirstWithOptions(meta) ==
    CHOOSE k \in EntriesWithOptions(meta) : \A j \in EntriesWithOptions(meta) : k <= j

\* C12: get_midi_and_nvoices takes midi_enabled and voice_count from the first entry of
\* the global meta array that has an options key, whatever the later entries hold (the
\* voice count stays unknown when that first entry has no nvoices token, even if a later
\* one has it); without any entry with options both results are unknown.
C12_FirstOptionsEntryWins ==
    OptionsDone =>
        IF EntriesWithOptions(args.meta) = {}
        THEN result = <<Unknown, Unknown>>
        ELSE LET facts == OptionsFacts(args.meta[FirstWithOptions(args.meta)].options)
             IN  result = <<Known(facts[1]), facts[2]>>

C12_Witness ==
    /\ OptionsDone
    /\ Len(args.meta) = 3
    /\ args.meta[1] = [name |-> "organ"]
    /\ args.meta[2] = [options |-> "[midi:on]"]
    /\ args.meta[3] = [options |-> "[nvoices:12][midi:off]"]
    /\ result = <<Known(TRUE), Unknown>>

(***************************************************************************)
(* Properties of the writes to disk                                        *)
(***************************************************************************)
\* the steps of create_rnbo_patch that create nodes or edges
ConstructionSteps ==
    {"patcher", "dsp", "midi", "effect", "connect", "effect_midi", "compile", "audio_out", "audio_in"}

DocumentWrites == {k \in DOMAIN disk : disk[k].op = "save"}

\* C13: nothing is written to disk (save or saveas) while a construction step is still
\* to come, a conversion that failed has written no file, and a finished conversion has
\* written the output document exactly once, as its last write.
C13_NoWriteBeforeConstructionEnds ==
    /\ disk # <<>> => pc \notin ConstructionSteps
    /\ pc = "error" => disk = <<>>
    /\ pc = "done" =>
          /\ Cardinality(DocumentWrites) = 1
          /\ disk[Len(disk)] = [op |-> "save", path |-> MaxpatPath, content |-> patcher]

(***************************************************************************)
(* Properties of the audio terminals                                       *)
(***************************************************************************)
HasEffect == args.effect_codebox_code # ""

\* the unit that is last in the signal chain, and its number of signal outputs
LastUnit == IF HasEffect THEN effect_rnbo ELSE dsp_rnbo

LastUnitOutputs == IF HasEffect THEN args.effect_num_outputs ELSE args.dsp_num_outputs

Units == {dsp_rnbo, effect_rnbo} \ {None}

BoxesStartingWith(p, prefix) ==
    {b \in DOMAIN p.boxes : "text" \in DOMAIN p.boxes[b] /\ StartsWith(p.boxes[b].text, prefix)}

AudioOutputs == BoxesStartingWith(patcher, "dac~")

AudioInputs == BoxesStartingWith(patcher, "adc~")

\* the (outlet, inlet) pairs of the lines from src to dst, and one line per pair
PortPairs(src, dst) ==
    {<<patcher.lines[k].outlet, patcher.lines[k].inlet>> : k \in LinesBetween(patcher, src, dst)}

WiredStraight(src, dst, n) ==
    /\ PortPairs(src, dst) = {<<i, i>> : i \in 0..(n - 1)}
    /\ Cardinality(LinesBetween(patcher, src, dst)) = n

\* one audio output, fed by the last unit only: outlet i -> terminal inlet i
AudioOutputOnLastUnit ==
    /\ Cardinality(AudioOutputs) = 1
    /\ \A dac \in AudioOutputs :
          /\ WiredStraight(LastUnit, dac, LastUnitOutputs)
          /\ \A u \in Units \ {LastUnit} : LinesBetween(patcher, u, dac) = {}

AudioInputIffDspInputs ==
    Cardinality(AudioInputs) = IF args.dsp_num_inputs > 0 THEN 1 ELSE 0

\* C14 (as amended): in the finished patch the audio-output terminal is fed by the last
\* unit of the signal chain (the effect if present, else the DSP), one edge per signal
\* output of that unit; the audio-input terminal exists iff the DSP's num_inputs > 0 and
\* feeds the DSP unit, the first of the chain, one edge per signal input, never the effect.
C14_OutputOnLastInputOnDsp ==
    pc = "done" =>
        /\ AudioOutputOnLastUnit
        /\ AudioInputIffDspInputs
        /\ \A adc \in AudioInputs :
              /\ WiredStraight(adc, dsp_rnbo, args.dsp_num_inputs)
              /\ \A u \in Units \ {dsp_rnbo} : LinesBetween(patcher, adc, u) = {}

\* C14 as stated: the audio-input terminal feeds the last unit of the signal chain.
C14_TerminalsOnLastUnit ==
    pc = "done" =>
        /\ AudioOutputOnLastUnit
        /\ AudioInputIffDspInputs
        /\ \A adc \in AudioInputs : WiredStraight(adc, LastUnit, args.dsp_num_inputs)

C14_Witness ==
    /\ pc = "done"
    /\ HasEffect
    /\ args.dsp_num_inputs > 0
    /\ args.effect_num_outputs > 0
    /\ \E adc \in AudioInputs : HasLine(patcher, adc, dsp_rnbo, 0, 0)
    /\ \E dac \in AudioOutputs : HasLine(patcher, effect_rnbo, dac, 0, 0)

(***************************************************************************)
(* Properties of the polyphony sub-graph                                   *)
(***************************************************************************)
\* the last parameter in document order whose name ends in one of the suffixes
RoleMatches(suffixes) ==
    {k \in DOMAIN args.items : \E suffix \in suffixes : EndsWith(args.items[k].shortname, suffix)}

LastMatching(suffixes) ==
    args.items[CHOOSE k \in RoleMatches(suffixes) : \A j \in RoleMatches(suffixes) : j <= k]

\* src, outlet `outlet`, drives the relay r through exactly the one box with text `via`
Through(src, outlet, via, r) ==
    /\ Cardinality(BoxesWithText(UnitSub, via)) = 1
    /\ \A m \in BoxesWithText(UnitSub, via) :
          /\ HasLine(UnitSub, src, m, outlet, 0)
          /\ HasLine(UnitSub, m, r, 0, 0)
          /\ \A l \in Lines(UnitSub) : l.src = m => l.dst = r
    /\ ~HasLine(UnitSub, src, r, outlet, 0)

\* src, outlet `outlet`, drives the relay r directly, and no box with text `via` exists
Directly(src, outlet, via, r) ==
    /\ HasLine(UnitSub, src, r, outlet, 0)
    /\ BoxesWithText(UnitSub, via) = {}

\* the boxes the note-receive node n feeds
FedBy(n) == {l.dst : l \in {l \in Lines(UnitSub) : l.src = n}}

\* C15: when the polyphony sub-graph is built, there is one note-receive node; with
\* pitch, gain and gate the last parameters in document order that match each role,
\* pitch is note-receive -> mtof -> pitch relay if the pitch parameter's name ends in
\* 'freq' and note-receive -> pitch relay if it ends in 'key'; gain is outlet 1 ->
\* 'scale 0 127 0 1' -> gain relay if the gain parameter's name ends in 'gain' and
\* outlet 1 -> gain relay if it ends in 'velocity'; gate is outlet 1 -> '> 0' -> gate
\* relay; and the note-receive node has these three lines only.
C15_PolyphonyShapeLastWins ==
    UnitDone /\ PolyphonyBuilt =>
        LET pitch == LastMatching({"freq", "key"})
            gain == LastMatching({"gain", "velocity"})
            gate == LastMatching({"gate"})
        IN  /\ Cardinality(BoxesWithText(UnitSub, "notein")) = 1
            /\ Cardinality(Relays(pitch)) = 1
            /\ Cardinality(Relays(gain)) = 1
            /\ Cardinality(Relays(gate)) = 1
            /\ \A n \in BoxesWithText(UnitSub, "notein") :
                  /\ \A r \in Relays(pitch) :
                        IF EndsWith(pitch.shortname, "freq")
                        THEN Through(n, 0, "mtof", r)
                        ELSE Directly(n, 0, "mtof", r)
                  /\ \A r \in Relays(gain) :
                        IF EndsWith(gain.shortname, "gain")
                        THEN Through(n, 1, "scale 0 127 0 1", r)
                        ELSE Directly(n, 1, "scale 0 127 0 1", r)
                  /\ \A r \in Relays(gate) : Through(n, 1, "> 0", r)
                  /\ Cardinality({k \in DOMAIN UnitSub.lines : UnitSub.lines[k].src = n}) = 3
                  /\ Cardinality(FedBy(n)) = 3

C15_Witness ==
    /\ UnitDone
    /\ PolyphonyBuilt
    /\ args.items = <<FreqItem, KeyItem, VelocityItem, GainItem, GateItem>>
    /\ BoxesWithText(UnitSub, "mtof") = {}
    /\ BoxesWithText(UnitSub, "scale 0 127 0 1") # {}
    /\ \E n \in BoxesWithText(UnitSub, "notein") : \E r \in Relays(KeyItem) :
          HasLine(UnitSub, n, r, 0, 0)

(***************************************************************************)
(* Properties of the UI reader                                             *)
(***************************************************************************)
ExtractDone == pc = "extract_done"

\* the children of a node
ChildrenOf(node) == IF "items" \in DOMAIN node THEN node.items ELSE <<>>

\* a node of the tree is named by its path: the positions of its ancestors and itself
RECURSIVE PathsOf(_)
PathsOf(forest) ==
    UNION {{<<i>>} \cup {<<i>> \o p : p \in PathsOf(ChildrenOf(forest[i]))} : i \in DOMAIN forest}

RECURSIVE NodeAt(_, _)
NodeAt(forest, path) ==
    IF Len(path) = 1 THEN forest[path[1]]
    ELSE NodeAt(ChildrenOf(forest[path[1]]), Tail(path))

\* document order: a node before its descendants, siblings left to right
Before(p, q) ==
    \E k \in 1..Len(q) :
        /\ k - 1 <= Len(p)
        /\ \A j \in 1..(k - 1) : p[j] = q[j]
        /\ \/ Len(p) = k - 1
           \/ Len(p) >= k /\ p[k] < q[k]

IsToggleNode(node) == "type" \in DOMAIN node /\ node.type \in {"button", "checkbox"}

Qualifies(node) == IsToggleNode(node) \/ {"min", "max", "step"} \subseteq DOMAIN node

UiOf(doc) == IF "ui" \in DOMAIN doc THEN doc.ui ELSE <<>>

QualifyingPaths(doc) == {p \in PathsOf(UiOf(doc)) : Qualifies(NodeAt(UiOf(doc), p))}

\* the place in the result of the node at path p
Rank(doc, p) == 1 + Cardinality({q \in QualifyingPaths(doc) : Before(q, p)})

\* the descriptor d describes the node
Describes(d, node) ==
    /\ d.shortname = node.shortname
    /\ d.type = node.type
    /\ IF IsToggleNode(node)
       THEN d.init = 0 /\ d.min = 0 /\ d.max = 1 /\ d.step = 1
       ELSE d.min = node.min /\ d.max = node.max /\ d.step = node.step

\* C16: extract_items_info returns one descriptor for every node, at any depth, that is a
\* button or checkbox or has min, max and step, and no other descriptor; the descriptors
\* are in document order (a node before its children, siblings left to right), children
\* being read under parents with and without a descriptor; a document without ui gives
\* the empty list; a button's or checkbox's descriptor has init 0, min 0, max 1, step 1.
C16_DescriptorsInDocumentOrder ==
    ExtractDone =>
        /\ Len(result) = Cardinality(QualifyingPaths(args))
        /\ \A p \in QualifyingPaths(args) :
              Describes(result[Rank(args, p)], NodeAt(UiOf(args), p))
        /\ "ui" \notin DOMAIN args => result = <<>>

C16_Witness ==
    /\ ExtractDone
    /\ "ui" \in DOMAIN args
    /\ args.ui = <<RangedGroup(<<ButtonNode>>), SliderNode>>
    /\ Len(result) = 3
    /\ result[1].shortname = "bank"
    /\ result[2] = Item("gate", "button", 0, 0, 1, 1, <<>>)
    /\ result[3] = Item("freq", "hslider", 4, 2, 9, 1, <<"pitchwheel">>)

(***************************************************************************)
(* Properties of the export trigger                                        *)
(***************************************************************************)
LoadEvents == BoxesWithText(patcher, "loadbang")

ConfigRequests == BoxesWithText(patcher, "dumptargetconfig cpp-export cpp-code-export")

ExportMessages == BoxesWithText(patcher, "export cpp-export cpp-code-export $1")

ConfigRoutes == BoxesWithText(patcher, "route targetconfig")

Triggers == BoxesWithText(patcher, "t b b s")

PathSetters ==
    BoxesWithText(patcher, "set output_path " \o ExportPath \o ", set export_name " \o CppFilename)

Dictionaries == BoxesWithText(patcher, "dict")

DictionaryRoutes == BoxesWithText(patcher, "route dictionary")

\* the export trigger has been added
ExportTriggerBuilt == LoadEvents # {}

\* the line out of the dump outlet of the DSP unit: its last outlet
IsDumpLine(l) == l.src = dsp_rnbo /\ l.outlet = patcher.boxes[dsp_rnbo].numoutlets - 1

\* the boxes that the boxes of `from` reach over the lines of `lines`
RECURSIVE ReachedFrom(_, _)
ReachedFrom(from, lines) ==
    LET next == from \cup {l.dst : l \in {l \in lines : l.src \in from}}
    IN  IF next = from THEN from ELSE ReachedFrom(next, lines)

\* the one box of a set of boxes
TheBox(boxes) == CHOOSE b \in boxes : TRUE

ExportTriggerChain ==
    LET load == TheBox(LoadEvents)
        request == TheBox(ConfigRequests)
        route == TheBox(ConfigRoutes)
        tb == TheBox(Triggers)
        set_path == TheBox(PathSetters)
        dict1 == TheBox(Dictionaries)
        route_dict == TheBox(DictionaryRoutes)
        export == TheBox(ExportMessages)
    IN  /\ HasLine(patcher, load, request, 0, 0)
        /\ HasLine(patcher, request, dsp_rnbo, 0, 0)
        /\ HasLine(patcher, dsp_rnbo, route, patcher.boxes[dsp_rnbo].numoutlets - 1, 0)
        /\ HasLine(patcher, route, tb, 0, 0)
        /\ HasLine(patcher, tb, set_path, 1, 0)
        /\ HasLine(patcher, tb, dict1, 0, 0)
        /\ HasLine(patcher, tb, dict1, 2, 1)
        /\ HasLine(patcher, set_path, dict1, 0, 0)
        /\ HasLine(patcher, dict1, route_dict, 0, 0)
        /\ HasLine(patcher, route_dict, export, 0, 0)
        /\ HasLine(patcher, export, dsp_rnbo, 0, 0)
        \* the request and the export message go to the DSP unit and nowhere else
        /\ \A l \in Lines(patcher) : l.src \in {request, export} => l.dst = dsp_rnbo
        \* with and without the dump line: the export message is reached through it only
        /\ export \in ReachedFrom({load}, Lines(patcher))
        /\ export \notin ReachedFrom({load}, {l \in Lines(patcher) : ~IsDumpLine(l)})

\* C17: once the export trigger is built it has one node of each kind, wired load event
\* -> target-configuration request -> DSP unit, DSP unit's last outlet (numoutlets - 1)
\* -> 'route targetconfig' -> trigger -> (set path and name, dict) -> 'route dictionary'
\* -> export message -> DSP unit; every path from the load event to the export message
\* uses the line out of the DSP unit's dump outlet; the request and the export message
\* feed the DSP unit only, with and without an effect, with and without MIDI.
C17_ExportTriggerThroughDumpOutlet ==
    /\ ExportTriggerBuilt =>
          /\ \A boxes \in {LoadEvents, ConfigRequests, ExportMessages, ConfigRoutes, Triggers,
                           PathSetters, Dictionaries, DictionaryRoutes} : Cardinality(boxes) = 1
          /\ ExportTriggerChain
    /\ pc = "done" => (ExportTriggerBuilt <=> args.compile)

C17_Witness ==
    /\ pc = "done"
    /\ ExportTriggerBuilt
    /\ effect_rnbo # None
    /\ args.midi
    /\ args.dsp_num_outputs = 2
    /\ \E route \in ConfigRoutes : HasLine(patcher, dsp_rnbo, route, 4, 0)

(***************************************************************************)
(* Totality of the Port Planner                                            *)
(***************************************************************************)
\* C18: for every midi flag, num_inputs >= 0 and num_outputs >= 0, MIDI with no outputs
\* and MIDI with neither inputs nor outputs included, generate_io_info raises no error
\* and returns a plan: the two counts and the two port lists.
C18_PlanNeverRaises ==
    PlanDone =>
        /\ "error" \notin DOMAIN io_result
        /\ {"inlets", "outlets", "inletInfo", "outletInfo"} \subseteq DOMAIN io_result

(***************************************************************************)
(* Properties of the resolution of the MIDI flag and the voice count       *)
(***************************************************************************)
LoadDone == pc = "load_done"

\* what the DSP's JSON file says: (MIDI state, voice count), each possibly unknown
JsonOptions == get_midi_and_nvoices(args.dsp_json)

\* voice_count = CLI value if it is given and > 0, else the JSON value if present, else -1
StatedVoices ==
    IF args.nvoices # Unknown /\ args.nvoices[1] > 0 THEN args.nvoices[1]
    ELSE IF JsonOptions[2] # Unknown THEN JsonOptions[2][1]
    ELSE -1

\* C19: with and without an effect, load_files_create_rnbo_patch raises no error and
\* passes midi = (CLI midi) or (JSON midi) and voice_count = the CLI value if it is
\* given and > 0, else the JSON value if present, else -1; in particular without the
\* voice-count option both paths pass the same voice count.
C19_SameResolutionWithAndWithoutEffect ==
    LoadDone =>
        /\ ~result.raised
        /\ result.midi = MidiOr(args.midi, JsonOptions[1])
        /\ result.nvoices = StatedVoices

(***************************************************************************)
(* Properties of the port addressing                                       *)
(***************************************************************************)
\* The ports of a unit by position: the signal inlets, then the MIDI inlet of a MIDI
\* unit; the signal outlets, then the MIDI outlet of a MIDI unit, the report outlet and
\* the dump outlet.
TrailingInlets == IF args.midi THEN 1 ELSE 0

TrailingOutlets == IF args.midi THEN 3 ELSE 2

\* the inlet, zero-based, is a signal inlet of the unit: below the trailing inlets, and
\* listed as a signal entry of the unit's plan
IsSignalInlet(u, inlet) ==
    /\ 0 <= inlet
    /\ inlet < patcher.boxes[u].numinlets - TrailingInlets
    /\ \E k \in EntriesOfType(patcher.boxes[u].inletInfo, "signal") :
          patcher.boxes[u].inletInfo[k].index = inlet + 1

IsSignalOutlet(u, outlet) ==
    /\ 0 <= outlet
    /\ outlet < patcher.boxes[u].numoutlets - TrailingOutlets
    /\ \E k \in EntriesOfType(patcher.boxes[u].outletInfo, "signal") :
          patcher.boxes[u].outletInfo[k].index = outlet + 1

\* the lines that carry audio: to an audio output, from an audio input, between the units
AudioLine(l) ==
    \/ l.dst \in AudioOutputs
    \/ l.src \in AudioInputs
    \/ l.src \in Units /\ l.dst \in Units

\* C20: in every patch under construction or finished, every line into a unit (DSP or
\* effect) ends at an inlet below the unit's num_inlets and every line out of a unit
\* starts at an outlet below its num_outlets; the lines to the audio output, from the
\* audio input and between the DSP and the effect use signal ports only, never the MIDI
\* inlet, the MIDI outlet, the report outlet or the dump outlet.
C20_PortsInBounds ==
    \A u \in Units : \A l \in Lines(patcher) :
        /\ l.dst = u =>
              /\ 0 <= l.inlet /\ l.inlet < patcher.boxes[u].numinlets
              /\ AudioLine(l) => IsSignalInlet(u, l.inlet)
        /\ l.src = u =>
              /\ 0 <= l.outlet /\ l.outlet < patcher.boxes[u].numoutlets
              /\ AudioLine(l) => IsSignalOutlet(u, l.outlet)

C20_Witness ==
    /\ pc = "done"
    /\ args.midi
    /\ args.compile
    /\ effect_rnbo # None
    /\ args.dsp_num_inputs = 1
    /\ args.dsp_num_outputs = 1
    /\ args.effect_num_inputs = 2
    /\ args.effect_num_outputs = 1
    /\ HasLine(patcher, dsp_rnbo, effect_rnbo, 0, 1)
    /\ \E dac \in AudioOutputs : HasLine(patcher, effect_rnbo, dac, 0, 0)
    /\ \E adc \in AudioInputs : HasLine(patcher, adc, dsp_rnbo, 0, 0)
    /\ HasLine(patcher, midi_in, effect_rnbo, 0, 2)

====
